---- MODULE Spec2Model ----
(***************************************************************************)
(* Sampling sessions, upload completion and block linking of the           *)
(* kisaan_backend service.                                                 *)
(*                                                                         *)
(* The tables grid_blocks, sampling_sessions, sampling_session_blocks,     *)
(* uploads, images and weekly_reports are the state; the HTTP handlers     *)
(* are the actions.  The linking transaction of completeHandler is split   *)
(* into its SQL statements so that concurrent completions interleave under *)
(* PostgreSQL READ COMMITTED row locking: a transaction's writes become    *)
(* visible to the others at its commit, an UPDATE waits for a row locked   *)
(* by another transaction, SELECT ... FOR UPDATE SKIP LOCKED skips it.     *)
(*                                                                         *)
(* Geometry is one-dimensional: a position is a distance in metres along a *)
(* line (an offset from an origin, not a latitude), a polygon is a set of  *)
(* positions, the distance between two positions is the absolute           *)
(* difference.  The origin lies at the latitude OriginLat, so that the     *)
(* position at offset p has the latitude OriginLat + p, in metres of arc.  *)
(*                                                                         *)
(* Spec is the model of uploads and linking, with a session start taken in *)
(* one step; StartSpec and GridSpec take createSamplingSession and its     *)
(* ensureFarmGrid statement by statement under concurrent calls;           *)
(* SampleSpec starts sessions on every farm, the large one included.       *)
(* SubmitSpec takes submitSessionHandler statement by statement under      *)
(* concurrent requests; VerifySpec applies the verification comparison    *)
(* and the two writes of images.geom to pairs of positions; UploadSpec     *)
(* completes uploads whose capture position and EXIF are of every kind the *)
(* handler distinguishes.  RefreshSpec takes the rotation of refresh       *)
(* tokens (table refresh_tokens) statement by statement under concurrent   *)
(* POST /refresh requests.                                                 *)
(*                                                                         *)
(* completeHandler is the one of src/controllers/cloudinary.controller.ts, *)
(* the handler the upload routes mount.  Its raw SQL names the columns     *)
(* image_id, session_id, grid_block_id and user_id; they are read as the   *)
(* columns imageId, sessionId, gridBlockId and userId of the migration.    *)
(***************************************************************************)
EXTENDS Integers, Sequences, FiniteSets, TLC

\* ---------------------------------------------------------------- bounds
MaxSessions == 1
MaxUploads == 2
\* concurrent createSamplingSession calls of StartSpec
MaxStarts == 2

\* ------------------------------------------------------- program constants
\* createSamplingSession: selectSessionBlocks(farmId, 4)
SampleSize == 4
\* completeHandler: if (Number(first.attempts ?? 0) >= 4)
AttemptCap == 4
\* completeHandler: Number(process.env.VERIFICATION_TOLERANCE_METERS ?? "50")
Tolerance == 50
\* createSamplingSession(userId, farmId, resolutionM = 50)
DefaultResolutionM == 50
\* deviceMetaSchema: captureLat: z.number().min(-90).max(90)
MaxLatDeg == 90
\* verifyDistanceToImage(imageId, captureLat, captureLon, thresholdMeters = 50)
DefaultThresholdMeters == 50

\* ------------------------------------------------------------ environment
Users == {"u1", "u2"}
Farms == {"f1", "f2", "f3"}
\* the farms sessions are started on: those of the uploads, a farm whose
\* degenerate boundary intersects no tile, a farm of more tiles than a
\* session samples, a farm narrower than a tile that lies across the line
\* between two tiles
SamplingFarms == Farms \cup {"f0", "f4", "f5"}
\* farms.userId
FarmOwner == [f \in SamplingFarms |-> IF f = "f3" THEN "u2" ELSE "u1"]
\* positions (metres) on the line; the positions a device reports
Pos == {0, 50, 100}
DevicePos == {0, 100}
\* farms.boundary
FarmBoundary ==
    [f \in SamplingFarms |->
        IF f = "f1" THEN {0, 50}
        ELSE IF f = "f0" THEN {}
        ELSE IF f = "f4" THEN {40, 60}
        ELSE IF f = "f5" THEN {0, 50, 100, 150, 200}
        ELSE {100}]
\* the tiles ST_SquareGrid can produce over the boundaries
TileIndexSeq == <<0, 1, 2, 3, 4>>

\* one degree of latitude in metres of arc (haversine, R = 6371000 m)
MetresPerDegree == 111195
\* the latitude of offset 0 of the line, in metres of arc north of the equator
OriginLat == 20 * MetresPerDegree

NoId == 0
\* a Cloudinary resource without EXIF: (resource as any).exif ?? null
NoExif == [present |-> FALSE, gps |-> [fmt |-> "absent", value |-> 0],
           ts |-> "absent"]

VARIABLES gridBlocks, sessions, blocks, uploads, images, link, reports, starts,
          requests, verify, refreshTokens, refreshCalls

vars == <<gridBlocks, sessions, blocks, uploads, images, link, reports, starts,
          requests, verify, refreshTokens, refreshCalls>>

Min(a, b) == IF a <= b THEN a ELSE b

\* ---------------------------------------------------------------- geometry
\* haversineDistanceMeters on the line
DistanceMeters(a, b) == IF a >= b THEN a - b ELSE b - a

\* the latitude of the position at offset p, and the offset of a latitude
Latitude(p) == OriginLat + p
Offset(lat) == lat - OriginLat

\* z.number().min(-90).max(90) on a latitude in metres of arc
InLatRange(lat) ==
    /\ lat >= -(MaxLatDeg * MetresPerDegree)
    /\ lat <= MaxLatDeg * MetresPerDegree

\* ST_Contains(geom, point)
Contains(geom, p) == p \in geom

\* ST_Intersection(boundary, tile k of ST_SquareGrid(resolutionM, boundary))
TileGeom(f, k, resolutionM) ==
    {p \in FarmBoundary[f] : p \div resolutionM = k}

\* mutant: the tiles inserted one statement each, the generation stopping
\* after the first
GridRowsFirstOnly(f, resolutionM) ==
    LET NonEmpty(k) == TileGeom(f, k, resolutionM) # {}
        ks == SelectSeq(TileIndexSeq, NonEmpty)
    IN  [j \in 1..Min(1, Len(ks)) |->
            [farmId |-> f, geom |-> TileGeom(f, ks[j], resolutionM)]]

\* rows the INSERT ... SELECT of ensureFarmGrid produces: the non-empty
\* intersections of the tiles with the farm boundary
GridRows(f, resolutionM) ==
    LET NonEmpty(k) == TileGeom(f, k, resolutionM) # {}
        ks == SelectSeq(TileIndexSeq, NonEmpty)
    IN  [j \in 1..Len(ks) |->
            [farmId |-> f, geom |-> TileGeom(f, ks[j], resolutionM)]]

\* grid_blocks ids of a farm
FarmGridIds(grid, f) == {g \in DOMAIN grid : grid[g].farmId = f}

\* ensureFarmGrid: no-op when the farm has rows, else insert the tiles
EnsureFarmGrid(grid, f, resolutionM) ==
    IF FarmGridIds(grid, f) # {} THEN grid ELSE grid \o GridRows(f, resolutionM)

\* mutant: a selection that draws with replacement
SelectSessionBlocksWithRepeats(grid, f, count) ==
    LET ids == FarmGridIds(grid, f)
        n == Min(count, Cardinality(ids))
    IN  [1..n -> ids]

\* selectSessionBlocks: ORDER BY random() LIMIT count, as the set of the
\* sequences of distinct grid block ids it can return
SelectSessionBlocks(grid, f, count) ==
    LET ids == FarmGridIds(grid, f)
        n == Min(count, Cardinality(ids))
    IN  {s \in [1..n -> ids] : \A a, b \in 1..n : a # b => s[a] # s[b]}

\* ------------------------------------------------------------------ tables
\* mutant: the blocks numbered from 1
NewSessionBlockOneBased(sessionId, gridBlockId, geom, idx) ==
    [sessionId |-> sessionId, gridBlockId |-> gridBlockId, geom |-> geom,
     order_index |-> idx + 1, status |-> "PENDING", attempts |-> 0,
     imageId |-> NoId]

\* a sampling_session_blocks row as createSamplingSession inserts it
NewSessionBlock(sessionId, gridBlockId, geom, idx) ==
    [sessionId |-> sessionId, gridBlockId |-> gridBlockId, geom |-> geom,
     order_index |-> idx, status |-> "PENDING", attempts |-> 0, imageId |-> NoId]

\* deviceMetaSchema of the sign request, on the capture position at offset p
DeviceMetaValid(p) == InLatRange(Latitude(p))

\* completeHandler: !deviceMeta?.captureLat rejects the upload
HasCaptureMeta(up) == Latitude(up.devicePos) # 0

\* parseExifGps on a raw EXIF value: null for a missing value and for text
\* that holds no number, else the number, whatever its range.  The DMS
\* forms resolve to a number like the decimal form.
ParseExifGps(raw) ==
    IF raw.fmt = "decimal" THEN [null |-> FALSE, value |-> raw.value]
    ELSE [null |-> TRUE, value |-> 0]

\* mutant: a timestamp that does not parse is let through
TimestampThrowsNever(raw) == FALSE

\* normalizeExifTimestamp throws: on a missing value, on "YYYY:MM:DD
\* HH:mm:ss" that names no date, on text Date cannot parse
TimestampThrows(raw) == raw \in {"absent", "exif_no_such_date", "text"}

\* the EXIF of a photo taken at offset p
ExifAt(p) ==
    [present |-> TRUE, gps |-> [fmt |-> "decimal", value |-> Latitude(p)],
     ts |-> "exif"]

\* the EXIF a completion of Spec finds on the resource
ExifInputs == {ExifAt(p) : p \in Pos} \cup {NoExif}

\* mutant: a distance equal to the tolerance flags
VerificationOutcomeStrict(devicePos, exifPos) ==
    IF DistanceMeters(devicePos, exifPos) < Tolerance THEN "VERIFIED" ELSE "FLAGGED"

\* the verification outcome of completeHandler
VerificationOutcome(devicePos, exifPos) ==
    IF DistanceMeters(devicePos, exifPos) <= Tolerance THEN "VERIFIED" ELSE "FLAGGED"

\* mutant: a linked block is COMPLETED whatever the outcome
BlockStatusCompleted(outcome) == "COMPLETED"

\* const blockStatus = verificationOutcome === "VERIFIED" ? "COMPLETED" : "FLAGGED"
BlockStatus(outcome) == IF outcome = "VERIFIED" THEN "COMPLETED" ELSE "FLAGGED"

\* mutant: the response code does not follow the verification outcome
LinkedCodeAlwaysFlagged(outcome) == "linked_but_flagged"

\* responseCode of a successful link
LinkedCode(outcome) ==
    IF outcome = "VERIFIED" THEN "linked_and_verified" ELSE "linked_but_flagged"

\* mutant: images has no unique index on local_upload_id
NoImageInsertConflict(imgs, localUploadId) == FALSE

\* the unique index ux_images_local_upload_id rejects a second image row of
\* the same localUploadId
ImageInsertConflict(imgs, localUploadId) ==
    \E i \in DOMAIN imgs : imgs[i].localUploadId = localUploadId

\* mutant: the UPDATE without AND image_id IS NULL
LinkUpdateUnconditional(blks, target, img) ==
    LET rows == {b \in DOMAIN blks : b = target}
        dup == \E b \in DOMAIN blks : b \notin rows /\ blks[b].imageId = img
    IN  IF rows = {} THEN [error |-> FALSE, rows |-> {}]
        ELSE IF dup THEN [error |-> TRUE, rows |-> {}]
        ELSE [error |-> FALSE, rows |-> rows]

\* mutant: the UPDATE keyed on the target's session instead of its id, on a
\* table without the unique index on imageId
LinkUpdateBySession(blks, target, img) ==
    [error |-> FALSE,
     rows |-> {b \in DOMAIN blks : /\ target \in DOMAIN blks
                                   /\ blks[b].sessionId = blks[target].sessionId
                                   /\ blks[b].imageId = NoId}]

\* UPDATE sampling_session_blocks SET image_id = img, ... WHERE id = target
\* AND image_id IS NULL, under the unique index on imageId: the rows it
\* changes, or an error when it would store img on a second row
LinkUpdate(blks, target, img) ==
    LET rows == {b \in DOMAIN blks : b = target /\ blks[b].imageId = NoId}
        dup == \/ Cardinality(rows) > 1
               \/ \E b \in DOMAIN blks : b \notin rows /\ blks[b].imageId = img
    IN  IF rows = {} THEN [error |-> FALSE, rows |-> {}]
        ELSE IF dup THEN [error |-> TRUE, rows |-> {}]
        ELSE [error |-> FALSE, rows |-> rows]

\* mutant: the cap compared against the first attempt
LinkedRowLowCap(row, img, outcome) ==
    [row EXCEPT !.imageId = img,
                !.attempts = row.attempts + 1,
                !.status = IF row.attempts + 1 >= 1
                           THEN "FAILED" ELSE BlockStatus(outcome)]

\* the row after SET image_id, attempts = attempts + 1, status, followed by
\* the UPDATE ... SET status = 'FAILED' when the attempts reach the cap
LinkedRow(row, img, outcome) ==
    [row EXCEPT !.imageId = img,
                !.attempts = row.attempts + 1,
                !.status = IF row.attempts + 1 >= AttemptCap
                           THEN "FAILED" ELSE BlockStatus(outcome)]

\* ------------------------------------------------------------- row locking
BlockKey(b) == <<"ssb", b>>
SessionKey(s) == <<"ss", s>>
GridKey(g) == <<"gb", g>>

\* the row is locked by a linking transaction other than i
LockedByOther(key, i) ==
    \E j \in DOMAIN link : j # i /\ key \in link[j].held

\* the rows of the three joined tables a candidate of the spatial SELECT
\* ... FOR UPDATE locks
CandidateKeys(b) ==
    {BlockKey(b), SessionKey(blocks[b].sessionId), GridKey(blocks[b].gridBlockId)}

\* mutant: the spatial SELECT without FOR UPDATE SKIP LOCKED
SpatialCandidatesNoSkip(i) ==
    LET up == uploads[images[i].localUploadId]
    IN  {b \in DOMAIN blocks :
            /\ sessions[blocks[b].sessionId].status = "ACTIVE"
            /\ blocks[b].imageId = NoId
            /\ blocks[b].gridBlockId \in DOMAIN gridBlocks
            /\ Contains(gridBlocks[blocks[b].gridBlockId].geom, up.devicePos)
            /\ sessions[blocks[b].sessionId].userId = up.userId}

\* the rows the spatial SELECT of image i can return
SpatialCandidates(i) ==
    LET up == uploads[images[i].localUploadId]
    IN  {b \in DOMAIN blocks :
            /\ sessions[blocks[b].sessionId].status = "ACTIVE"
            /\ blocks[b].imageId = NoId
            /\ blocks[b].gridBlockId \in DOMAIN gridBlocks
            /\ Contains(gridBlocks[blocks[b].gridBlockId].geom, up.devicePos)
            /\ sessions[blocks[b].sessionId].userId = up.userId
            /\ \A k \in CandidateKeys(b) : ~LockedByOther(k, i)}

\* images.geom of an image that has none yet
NoGeom == -1

\* no verification in progress
NoVerify == [pc |-> "idle", devicePos |-> 0, exifPos |-> 0, dist |-> 0,
             outcome |-> "none", withinThreshold |-> FALSE, geom |-> NoGeom]

\* createImageRecordRaw: geomLat = useCapture ? captureLat : exifLat
GeomPoint(useCapture, capturePos, exifPos) ==
    IF useCapture THEN capturePos ELSE exifPos

\* ------------------------------------------------------------------- Init
Init ==
    /\ gridBlocks = <<>>
    /\ sessions = <<>>
    /\ blocks = <<>>
    /\ uploads = <<>>
    /\ images = <<>>
    /\ link = <<>>
    /\ reports = <<>>
    /\ starts = <<>>
    /\ requests = <<>>
    /\ verify = NoVerify
    /\ refreshTokens = {}
    /\ refreshCalls = <<>>

\* ---------------------------------------------------------------- actions
\* POST /farms/:farmId/weekly-sessions/start by user u
StartSession(u, f) ==
    /\ Len(sessions) < MaxSessions
    /\ FarmOwner[f] = u
    /\ LET grid == EnsureFarmGrid(gridBlocks, f, DefaultResolutionM)
           sid == Len(sessions) + 1
       IN  /\ gridBlocks' = grid
           /\ IF FarmGridIds(grid, f) = {}
              THEN UNCHANGED <<sessions, blocks>>
              ELSE \E sel \in SelectSessionBlocks(grid, f, SampleSize) :
                     /\ sessions' = Append(sessions,
                            [userId |-> u, farmId |-> f, status |-> "ACTIVE"])
                     /\ blocks' = blocks \o
                            [j \in 1..Len(sel) |->
                                NewSessionBlock(sid, sel[j], grid[sel[j]].geom, j - 1)]
    /\ UNCHANGED <<uploads, images, link, reports, starts, requests, verify,
                   refreshTokens, refreshCalls>>

\* POST /uploads/cloudinary/sign by user u: the uploads row with its deviceMeta
SignUpload(u, f, p, e) ==
    /\ Len(uploads) < MaxUploads
    /\ DeviceMetaValid(p)
    /\ FarmOwner[f] = u
    /\ uploads' = Append(uploads,
          [userId |-> u, farmId |-> f, devicePos |-> p, sessionBlockId |-> e,
           uploadStatus |-> "PENDING", response |-> 0])
    /\ UNCHANGED <<gridBlocks, sessions, blocks, images, link, reports,
                   starts, requests, verify, refreshTokens, refreshCalls>>

\* the state of the linking transaction completeHandler opens for a new image
NewLink(explicitBlockId) ==
    [pc |-> IF explicitBlockId # NoId THEN "explicit" ELSE "select",
     responseCode |-> "not_linked", linkedSessionBlockId |-> NoId,
     first |-> "unset", candidate |-> NoId, held |-> {}, written |-> {},
     aborted |-> FALSE]

\* completeHandler rejects the upload with 400: device metadata missing,
\* EXIF missing, EXIF GPS missing, EXIF timestamp invalid, or the images row
\* refused by the unique index
CompleteRejected(l, exif) ==
    \/ ~HasCaptureMeta(uploads[l])
    \/ ~exif.present
    \/ ParseExifGps(exif.gps).null
    \/ TimestampThrows(exif.ts)
    \/ ImageInsertConflict(images, l)

\* POST /uploads/cloudinary/complete for upload l whose resource holds exif,
\* up to the linking transaction: metadata and EXIF checks, verification,
\* the images row, the upload status.  response is the HTTP status sent.
CompleteUpload(l, exif) ==
    /\ l \in DOMAIN uploads
    /\ IF CompleteRejected(l, exif)
       THEN /\ uploads' = [uploads EXCEPT ![l].uploadStatus = "FAILED",
                                          ![l].response = 400]
            /\ UNCHANGED <<images, link>>
       ELSE /\ Len(images) < MaxUploads + 1
            /\ images' = Append(images,
                  [localUploadId |-> l,
                   verification_status |->
                       VerificationOutcome(uploads[l].devicePos,
                           Offset(ParseExifGps(exif.gps).value)),
                   weeklyReportId |-> NoId])
            /\ uploads' = [uploads EXCEPT ![l].uploadStatus = "COMPLETED",
                                          ![l].response = 200]
            /\ link' = Append(link, NewLink(uploads[l].sessionBlockId))
    /\ UNCHANGED <<gridBlocks, sessions, blocks, reports, starts, requests,
                   verify, refreshTokens, refreshCalls>>

\* mutant: the statements of the transaction outside try/catch
ErrorCodeUncaught(pc) == "unhandled_exception"

\* the responseCode the catch block around the failed statement assigns
ErrorCode(pc) ==
    IF pc = "explicit" THEN "explicit_link_error" ELSE "spatial_link_error"

\* the link transaction of image i after an UPDATE that returned a row
Linked(i, res) ==
    [link[i] EXCEPT
        !.pc = "commit",
        !.held = @ \cup {BlockKey(b) : b \in res.rows},
        !.written = res.rows,
        !.linkedSessionBlockId = CHOOSE b \in res.rows : TRUE,
        !.responseCode = LinkedCode(images[i].verification_status)]

\* step 1 of the transaction: the conditional UPDATE of the explicit block.
\* It waits while another transaction holds the row.
LinkExplicit(i) ==
    /\ i \in DOMAIN link
    /\ link[i].pc = "explicit"
    /\ LET e == uploads[images[i].localUploadId].sessionBlockId
           res == LinkUpdate(blocks, e, i)
       IN  /\ ~LockedByOther(BlockKey(e), i)
           /\ link' = [link EXCEPT ![i] =
                 IF res.error
                 THEN [@ EXCEPT !.pc = "select", !.aborted = TRUE,
                                !.responseCode = ErrorCode("explicit")]
                 ELSE IF res.rows = {}
                 THEN [@ EXCEPT !.pc = "select", !.first = "null",
                                !.responseCode = "explicit_block_already_taken"]
                 ELSE [Linked(i, res) EXCEPT !.first = "row"]]
    /\ UNCHANGED <<gridBlocks, sessions, blocks, uploads, images, reports,
                   starts, requests, verify, refreshTokens, refreshCalls>>

\* step 2: SELECT ... FOR UPDATE SKIP LOCKED LIMIT 1 of the spatial fallback.
\* In a transaction aborted by a failed statement the SELECT throws.
LinkSpatialSelect(i) ==
    /\ i \in DOMAIN link
    /\ link[i].pc = "select"
    /\ IF link[i].aborted
       THEN link' = [link EXCEPT ![i].pc = "commit",
                                 ![i].responseCode = ErrorCode("select")]
       ELSE IF SpatialCandidates(i) = {}
       THEN link' = [link EXCEPT ![i].pc = "commit",
                                 ![i].responseCode = "spatial_no_match"]
       ELSE \E c \in SpatialCandidates(i) :
               link' = [link EXCEPT ![i].pc = "update",
                                    ![i].candidate = c,
                                    ![i].held = @ \cup CandidateKeys(c)]
    /\ UNCHANGED <<gridBlocks, sessions, blocks, uploads, images, reports,
                   starts, requests, verify, refreshTokens, refreshCalls>>

\* step 3: the conditional UPDATE of the selected candidate.  Like every
\* UPDATE it waits while another transaction holds the row.
LinkSpatialUpdate(i) ==
    /\ i \in DOMAIN link
    /\ link[i].pc = "update"
    /\ ~LockedByOther(BlockKey(link[i].candidate), i)
    /\ LET res == LinkUpdate(blocks, link[i].candidate, i)
       IN  link' = [link EXCEPT ![i] =
                 IF res.error
                 THEN [@ EXCEPT !.pc = "commit", !.aborted = TRUE,
                                !.responseCode = ErrorCode("update")]
                 ELSE IF res.rows = {}
                 THEN [@ EXCEPT !.pc = "commit",
                                !.responseCode = "spatial_conflict"]
                 ELSE Linked(i, res)]
    /\ UNCHANGED <<gridBlocks, sessions, blocks, uploads, images, reports,
                   starts, requests, verify, refreshTokens, refreshCalls>>

\* a statement of the transaction fails in the database (lost connection,
\* statement timeout, constraint): the surrounding catch assigns the error
\* code, the transaction is aborted and its later statements fail as well
LinkStatementFails(i) ==
    /\ i \in DOMAIN link
    /\ link[i].pc \in {"explicit", "select", "update"}
    /\ ~link[i].aborted
    /\ link' = [link EXCEPT ![i] =
          [@ EXCEPT !.pc = IF link[i].pc = "explicit" THEN "select" ELSE "commit",
                    !.aborted = TRUE,
                    !.responseCode = ErrorCode(link[i].pc)]]
    /\ UNCHANGED <<gridBlocks, sessions, blocks, uploads, images, reports,
                   starts, requests, verify, refreshTokens, refreshCalls>>

\* mutant: the upload status written inside the transaction, so that an
\* aborted transaction takes it back
LinkCommitRollsBackUpload(i) ==
    /\ i \in DOMAIN link
    /\ link[i].pc = "commit"
    /\ blocks' = [b \in DOMAIN blocks |->
                    IF b \in link[i].written /\ ~link[i].aborted
                    THEN LinkedRow(blocks[b], i, images[i].verification_status)
                    ELSE blocks[b]]
    /\ link' = [link EXCEPT ![i].pc = "done", ![i].held = {}]
    /\ uploads' = [uploads EXCEPT ![images[i].localUploadId].uploadStatus =
                      IF link[i].aborted THEN "PENDING" ELSE @]
    /\ UNCHANGED <<gridBlocks, sessions, images, reports, starts, requests,
                   verify, refreshTokens, refreshCalls>>

\* end of the transaction: its writes become visible unless it was aborted,
\* its row locks are released, the response is sent
LinkCommit(i) ==
    /\ i \in DOMAIN link
    /\ link[i].pc = "commit"
    /\ blocks' = [b \in DOMAIN blocks |->
                    IF b \in link[i].written /\ ~link[i].aborted
                    THEN LinkedRow(blocks[b], i, images[i].verification_status)
                    ELSE blocks[b]]
    /\ link' = [link EXCEPT ![i].pc = "done", ![i].held = {}]
    /\ UNCHANGED <<gridBlocks, sessions, uploads, images, reports, starts,
                   requests, verify, refreshTokens, refreshCalls>>

\* mutant: the filter on the image alone
CompletedBlocksAnyImage(s) ==
    {b \in DOMAIN blocks : blocks[b].sessionId = s /\ blocks[b].imageId # NoId}

\* session.sessionBlocks.filter(b => b.status === 'COMPLETED' && b.imageId)
CompletedBlocks(s) ==
    {b \in DOMAIN blocks : /\ blocks[b].sessionId = s
                           /\ blocks[b].status = "COMPLETED"
                           /\ blocks[b].imageId # NoId}

\* POST /farms/:farmId/weekly-sessions/:sessionUuid/submit by user u, with the
\* session's farm in the path.  The UPDATE of the session row waits for a
\* linking transaction that holds it.
SubmitSession(s, u) ==
    /\ s \in DOMAIN sessions
    /\ sessions[s].status = "ACTIVE"
    /\ CompletedBlocks(s) # {}
    /\ \A i \in DOMAIN link : SessionKey(s) \notin link[i].held
    /\ LET imageIds == {blocks[b].imageId : b \in CompletedBlocks(s)}
           rid == Len(reports) + 1
       IN  /\ reports' = Append(reports,
                 [farmId |-> sessions[s].farmId, userId |-> u, sessionId |-> s])
           /\ images' = [i \in DOMAIN images |->
                 IF i \in imageIds
                 THEN [images[i] EXCEPT !.weeklyReportId = rid] ELSE images[i]]
    /\ sessions' = [sessions EXCEPT ![s].status = "COMPLETED"]
    /\ UNCHANGED <<gridBlocks, blocks, uploads, link, starts, requests,
                   verify, refreshTokens, refreshCalls>>

Next ==
    \/ \E u \in Users, f \in Farms : StartSession(u, f)
    \/ \E u \in Users, f \in Farms, p \in DevicePos, e \in {NoId} \cup DOMAIN blocks :
          SignUpload(u, f, p, e)
    \/ \E l \in DOMAIN uploads, x \in ExifInputs : CompleteUpload(l, x)
    \/ \E i \in DOMAIN link : LinkExplicit(i)
    \/ \E i \in DOMAIN link : LinkSpatialSelect(i)
    \/ \E i \in DOMAIN link : LinkSpatialUpdate(i)
    \/ \E i \in DOMAIN link : LinkStatementFails(i)
    \/ \E i \in DOMAIN link : LinkCommit(i)
    \/ \E s \in DOMAIN sessions, u \in Users : SubmitSession(s, u)

Spec == Init /\ [][Next]_vars

\* ------------------------------------- createSamplingSession, step by step
\* StartSession above takes createSamplingSession in one step.  StartSpec
\* takes concurrent calls statement by statement: the count and the INSERT
\* of ensureFarmGrid, the selection, the transaction that creates the
\* session and its blocks.  GridSpec takes the calls up to the return of
\* ensureFarmGrid, on farms of no, one and two cells.
StartFarms == {"f0", "f2"}
GridFarms == {"f0", "f1", "f2"}

\* mutant: ensureFarmGrid without its early return
GridExistsNever(count) == FALSE

\* ensureFarmGrid: if (count > 0) return
GridExists(count) == count > 0

\* mutant: createSamplingSession without the check of the selection
EmptySelectionIgnored(sel) == FALSE

\* createSamplingSession: if (blocks.length === 0) throw
EmptySelection(sel) == Len(sel) = 0

\* POST /farms/:farmId/weekly-sessions/start by user u, up to the call of
\* createSamplingSession
StartCall(u, f) ==
    /\ Len(starts) < MaxStarts
    /\ FarmOwner[f] = u
    /\ starts' = Append(starts,
          [userId |-> u, farmId |-> f, pc |-> "count", count |-> 0,
           sel |-> <<>>, sessionId |-> NoId, error |-> "none"])
    /\ UNCHANGED <<gridBlocks, sessions, blocks, uploads, images, link,
                   reports, requests, verify, refreshTokens, refreshCalls>>

\* ensureFarmGrid: prisma.gridBlock.count and the early return
EnsureCount(c) ==
    /\ c \in DOMAIN starts
    /\ starts[c].pc = "count"
    /\ LET count == Cardinality(FarmGridIds(gridBlocks, starts[c].farmId))
       IN  starts' = [starts EXCEPT
                ![c].count = count,
                ![c].pc = IF GridExists(count) THEN "select" ELSE "insert"]
    /\ UNCHANGED <<gridBlocks, sessions, blocks, uploads, images, link,
                   reports, requests, verify, refreshTokens, refreshCalls>>

\* ensureFarmGrid: the INSERT ... SELECT, one statement; grid_blocks has no
\* unique constraint but its primary key, so ON CONFLICT DO NOTHING drops no row
EnsureInsert(c) ==
    /\ c \in DOMAIN starts
    /\ starts[c].pc = "insert"
    /\ gridBlocks' = gridBlocks \o GridRows(starts[c].farmId, DefaultResolutionM)
    /\ starts' = [starts EXCEPT ![c].pc = "select"]
    /\ UNCHANGED <<sessions, blocks, uploads, images, link, reports, requests,
                   verify, refreshTokens, refreshCalls>>

\* selectSessionBlocks and the check of its result
SelectBlocks(c) ==
    /\ c \in DOMAIN starts
    /\ starts[c].pc = "select"
    /\ \E sel \in SelectSessionBlocks(gridBlocks, starts[c].farmId, SampleSize) :
          starts' = [starts EXCEPT ![c] =
             IF EmptySelection(sel)
             THEN [@ EXCEPT !.pc = "failed",
                            !.error = "Farm has no valid grid blocks"]
             ELSE [@ EXCEPT !.pc = "tx_session", !.sel = sel]]
    /\ UNCHANGED <<gridBlocks, sessions, blocks, uploads, images, link,
                   reports, requests, verify, refreshTokens, refreshCalls>>

\* inside prisma.$transaction: tx.samplingSession.create; the row is not
\* visible outside the transaction
TxCreateSession(c) ==
    /\ c \in DOMAIN starts
    /\ starts[c].pc = "tx_session"
    /\ starts' = [starts EXCEPT ![c].pc = "tx_blocks"]
    /\ UNCHANGED <<gridBlocks, sessions, blocks, uploads, images, link,
                   reports, requests, verify, refreshTokens, refreshCalls>>

\* inside the transaction: the INSERTs of the session blocks, then the commit
\* that makes the session and its blocks visible
TxInsertBlocksCommit(c) ==
    /\ c \in DOMAIN starts
    /\ starts[c].pc = "tx_blocks"
    /\ LET sid == Len(sessions) + 1
           sel == starts[c].sel
       IN  /\ sessions' = Append(sessions,
                 [userId |-> starts[c].userId, farmId |-> starts[c].farmId,
                  status |-> "ACTIVE"])
           /\ blocks' = blocks \o
                 [j \in 1..Len(sel) |->
                     NewSessionBlock(sid, sel[j], gridBlocks[sel[j]].geom, j - 1)]
           /\ starts' = [starts EXCEPT ![c].pc = "done", ![c].sessionId = sid]
    /\ UNCHANGED <<gridBlocks, uploads, images, link, reports, requests,
                   verify, refreshTokens, refreshCalls>>

\* mutant: the session and its blocks created without a transaction, a
\* failure of the block INSERTs leaving the session row behind
StartFailsNoRollback(c) ==
    /\ c \in DOMAIN starts
    /\ starts[c].pc \in {"insert", "tx_session", "tx_blocks"}
    /\ starts' = [starts EXCEPT ![c].pc = "failed", ![c].error = "database error"]
    /\ sessions' = IF starts[c].pc = "tx_blocks"
                   THEN Append(sessions,
                          [userId |-> starts[c].userId,
                           farmId |-> starts[c].farmId, status |-> "ACTIVE"])
                   ELSE sessions
    /\ UNCHANGED <<gridBlocks, blocks, uploads, images, link, reports,
                   requests, verify, refreshTokens, refreshCalls>>

\* a statement fails in the database: the INSERT of the grid inserts nothing,
\* the transaction is rolled back, createSamplingSession throws
StartFails(c) ==
    /\ c \in DOMAIN starts
    /\ starts[c].pc \in {"insert", "tx_session", "tx_blocks"}
    /\ starts' = [starts EXCEPT ![c].pc = "failed", ![c].error = "database error"]
    /\ UNCHANGED <<gridBlocks, sessions, blocks, uploads, images, link,
                   reports, requests, verify, refreshTokens, refreshCalls>>

StartNext ==
    \/ \E u \in Users, f \in StartFarms : StartCall(u, f)
    \/ \E c \in DOMAIN starts : EnsureCount(c)
    \/ \E c \in DOMAIN starts : EnsureInsert(c)
    \/ \E c \in DOMAIN starts : SelectBlocks(c)
    \/ \E c \in DOMAIN starts : TxCreateSession(c)
    \/ \E c \in DOMAIN starts : TxInsertBlocksCommit(c)
    \/ \E c \in DOMAIN starts : StartFails(c)

StartSpec == Init /\ [][StartNext]_vars

GridNext ==
    \/ \E u \in Users, f \in GridFarms : StartCall(u, f)
    \/ \E c \in DOMAIN starts : EnsureCount(c)
    \/ \E c \in DOMAIN starts : EnsureInsert(c)
    \/ \E c \in DOMAIN starts : StartFails(c)

GridSpec == Init /\ [][GridNext]_vars

\* ------------------------------------------- createSamplingSession, sampled
\* sessions started one after the other on every farm, the one of more tiles
\* than a session samples included
SampleNext == \E u \in Users, f \in SamplingFarms : StartSession(u, f)

SampleSpec == Init /\ [][SampleNext]_vars

\* ------------------------------------------- submitSessionHandler, step by step
\* SubmitSession above takes the submit in one step.  SubmitSpec takes
\* concurrent requests statement by statement, next to uploads that link to
\* the session's blocks: the read of the session with its blocks, the
\* INSERT of the report, the UPDATE of the images, the UPDATE of the session.
\* submit and cancel requests SubmitSpec follows
MaxSubmits == 2
\* uploads SubmitSpec follows
MaxSubmitUploads == 1
\* the farms of SubmitSpec and the farm ids requests carry in their path
SubmitFarms == {"f1"}
PathFarms == {"f1", "f2"}

\* a request as the router receives it
NewRequest(op, u, f, s) ==
    [op |-> op, userId |-> u, farmId |-> f, sessionId |-> s, pc |-> "read",
     imageIds |-> {}, reportId |-> NoId, status |-> 0, message |-> "none"]

\* POST /farms/:farmId/weekly-sessions/:sessionUuid/submit by user u
SubmitCall(u, f, s) ==
    /\ Len(requests) < MaxSubmits
    /\ requests' = Append(requests, NewRequest("submit", u, f, s))
    /\ UNCHANGED <<gridBlocks, sessions, blocks, uploads, images, link,
                   reports, starts, verify, refreshTokens, refreshCalls>>

\* mutant: the submit without the check of the session status
SubmitCheckNoStatus(found, status, completed) ==
    IF ~found THEN [status |-> 404, message |-> "Session not found"]
    ELSE IF completed = {}
    THEN [status |-> 400,
          message |-> "No completed blocks found. Cannot submit empty session."]
    ELSE [status |-> 0, message |-> "none"]

\* the APIError submitSessionHandler throws on what it read, status 0 when
\* it throws none
SubmitCheck(found, status, completed) ==
    IF ~found THEN [status |-> 404, message |-> "Session not found"]
    ELSE IF status # "ACTIVE"
    THEN [status |-> 400,
          message |-> IF status = "COMPLETED" THEN "Session is already COMPLETED"
                      ELSE "Session is already CANCELLED"]
    ELSE IF completed = {}
    THEN [status |-> 400,
          message |-> "No completed blocks found. Cannot submit empty session."]
    ELSE [status |-> 0, message |-> "none"]

\* findUnique({ where: { sessionUuid }, include: { sessionBlocks: true } })
\* and the checks on its result
SubmitRead(r) ==
    /\ r \in DOMAIN requests
    /\ requests[r].op = "submit"
    /\ requests[r].pc = "read"
    /\ LET s == requests[r].sessionId
           found == s \in DOMAIN sessions /\ sessions[s].farmId = requests[r].farmId
           status == IF found THEN sessions[s].status ELSE "none"
           completed == IF found THEN CompletedBlocks(s) ELSE {}
           err == SubmitCheck(found, status, completed)
       IN  requests' = [requests EXCEPT ![r] =
              IF err.status # 0
              THEN [@ EXCEPT !.pc = "done", !.status = err.status,
                             !.message = err.message]
              ELSE [@ EXCEPT !.pc = "report",
                             !.imageIds = {blocks[b].imageId : b \in completed}]]
    /\ UNCHANGED <<gridBlocks, sessions, blocks, uploads, images, link,
                   reports, starts, verify, refreshTokens, refreshCalls>>

\* prisma.weeklyReport.create
SubmitCreateReport(r) ==
    /\ r \in DOMAIN requests
    /\ requests[r].pc = "report"
    /\ reports' = Append(reports,
          [farmId |-> requests[r].farmId, userId |-> requests[r].userId,
           sessionId |-> requests[r].sessionId])
    /\ requests' = [requests EXCEPT ![r].pc = "images",
                                    ![r].reportId = Len(reports) + 1]
    /\ UNCHANGED <<gridBlocks, sessions, blocks, uploads, images, link,
                   starts, verify, refreshTokens, refreshCalls>>

\* prisma.image.updateMany({ where: { id: { in: imageIds } } })
SubmitLinkImages(r) ==
    /\ r \in DOMAIN requests
    /\ requests[r].pc = "images"
    /\ images' = [i \in DOMAIN images |->
          IF i \in requests[r].imageIds
          THEN [images[i] EXCEPT !.weeklyReportId = requests[r].reportId]
          ELSE images[i]]
    /\ requests' = [requests EXCEPT ![r].pc = "session"]
    /\ UNCHANGED <<gridBlocks, sessions, blocks, uploads, link, reports,
                   starts, verify, refreshTokens, refreshCalls>>

\* mutant: the submit answering without the UPDATE of the session
SubmitMarkCompletedNoUpdate(r) ==
    /\ r \in DOMAIN requests
    /\ requests[r].pc = "session"
    /\ requests' = [requests EXCEPT ![r].pc = "done", ![r].status = 200,
                                    ![r].message = "SUBMITTED"]
    /\ UNCHANGED <<gridBlocks, sessions, blocks, uploads, images, link,
                   reports, starts, verify, refreshTokens, refreshCalls>>

\* prisma.samplingSession.update({ status: "COMPLETED" }) and the response.
\* The UPDATE waits for a linking transaction that holds the session row.
SubmitMarkCompleted(r) ==
    /\ r \in DOMAIN requests
    /\ requests[r].pc = "session"
    /\ \A i \in DOMAIN link : SessionKey(requests[r].sessionId) \notin link[i].held
    /\ sessions' = [sessions EXCEPT ![requests[r].sessionId].status = "COMPLETED"]
    /\ requests' = [requests EXCEPT ![r].pc = "done", ![r].status = 200,
                                    ![r].message = "SUBMITTED"]
    /\ UNCHANGED <<gridBlocks, blocks, uploads, images, link, reports, starts,
                   verify, refreshTokens, refreshCalls>>

\* GET /farms/:farmId/weekly-sessions/:sessionUuid by user u: the session is
\* looked up by its id and compared with the farm of the path, then returned
GetCall(u, f, s) ==
    /\ Len(requests) < MaxSubmits
    /\ LET found == s \in DOMAIN sessions /\ sessions[s].farmId = f
       IN  requests' = Append(requests,
              [NewRequest("get", u, f, s) EXCEPT
                  !.pc = "done",
                  !.status = IF found THEN 200 ELSE 404,
                  !.message = IF found THEN "ok" ELSE "Session not found"])
    /\ UNCHANGED <<gridBlocks, sessions, blocks, uploads, images, link,
                   reports, starts, verify, refreshTokens, refreshCalls>>

\* a request to cancel the session: the router mounts start, get and
\* submit only, no route matches and Express answers 404
CancelCall(u, f, s) ==
    /\ Len(requests) < MaxSubmits
    /\ requests' = Append(requests,
          [NewRequest("cancel", u, f, s) EXCEPT
              !.pc = "done", !.status = 404, !.message = "no route"])
    /\ UNCHANGED <<gridBlocks, sessions, blocks, uploads, images, link,
                   reports, starts, verify, refreshTokens, refreshCalls>>

SubmitNext ==
    \/ \E u \in Users, f \in SubmitFarms : StartSession(u, f)
    \/ \E u \in Users, f \in SubmitFarms, p \in DevicePos,
          e \in {NoId} \cup DOMAIN blocks :
             Len(uploads) < MaxSubmitUploads /\ SignUpload(u, f, p, e)
    \/ \E l \in DOMAIN uploads, x \in ExifInputs : CompleteUpload(l, x)
    \/ \E i \in DOMAIN link : LinkExplicit(i)
    \/ \E i \in DOMAIN link : LinkSpatialSelect(i)
    \/ \E i \in DOMAIN link : LinkSpatialUpdate(i)
    \/ \E i \in DOMAIN link : LinkCommit(i)
    \/ \E u \in Users, f \in PathFarms, s \in 1..MaxSessions : SubmitCall(u, f, s)
    \/ \E r \in DOMAIN requests : SubmitRead(r)
    \/ \E r \in DOMAIN requests : SubmitCreateReport(r)
    \/ \E r \in DOMAIN requests : SubmitLinkImages(r)
    \/ \E r \in DOMAIN requests : SubmitMarkCompleted(r)
    \/ \E u \in Users, f \in PathFarms, s \in 1..MaxSessions : CancelCall(u, f, s)
    \/ \E u \in Users, f \in PathFarms, s \in 1..MaxSessions : GetCall(u, f, s)

SubmitSpec == Init /\ [][SubmitNext]_vars

\* --------------------------------------- the verification outcome, alone
\* VerifySpec applies the comparison of completeHandler and the one of
\* verifyDistanceToImage to every pair of a capture and an EXIF position
\* around the tolerance, and follows the geom of the image through the
\* INSERT of createImageRecordRaw and the UPDATE of setImageGeom.
VerifyPos == {0, 1, 49, 50, 51, 99, 100, 101}
\* distanceToImageMeters returns null: the image has no geom
NoDistance == -1

\* verifyDistanceToImage: withinThreshold of the distance the query returned
WithinThreshold(dist, thresholdMeters) ==
    IF dist = NoDistance THEN FALSE ELSE dist <= thresholdMeters

VerifyInit ==
    /\ gridBlocks = <<>>
    /\ sessions = <<>>
    /\ blocks = <<>>
    /\ uploads = <<>>
    /\ images = <<>>
    /\ link = <<>>
    /\ reports = <<>>
    /\ starts = <<>>
    /\ requests = <<>>
    /\ refreshTokens = {}
    /\ refreshCalls = <<>>
    /\ \E d \in VerifyPos, e \in VerifyPos :
          verify = [NoVerify EXCEPT !.pc = "input", !.devicePos = d,
                                    !.exifPos = e]

\* completeHandler: distanceMeters <= tolerance ? "VERIFIED" : "FLAGGED"
VerifyOutcome ==
    /\ verify.pc = "input"
    /\ verify' = [verify EXCEPT
          !.pc = "verified",
          !.outcome = VerificationOutcome(verify.devicePos, verify.exifPos)]
    /\ UNCHANGED <<gridBlocks, sessions, blocks, uploads, images, link,
                   reports, starts, requests, refreshTokens, refreshCalls>>

\* verifyDistanceToImage(imageId, captureLat, captureLon) with the default
\* threshold, on an image that has a geom or has none
VerifyDistanceToImage(hasGeom) ==
    /\ verify.pc = "verified"
    /\ LET dist == IF hasGeom
                   THEN DistanceMeters(verify.devicePos, verify.exifPos)
                   ELSE NoDistance
       IN  verify' = [verify EXCEPT
              !.pc = "done",
              !.dist = dist,
              !.withinThreshold = WithinThreshold(dist, DefaultThresholdMeters)]
    /\ UNCHANGED <<gridBlocks, sessions, blocks, uploads, images, link,
                   reports, starts, requests, refreshTokens, refreshCalls>>

\* createImageRecordRaw as completeHandler calls it, with the capture
\* position of the device metadata and the EXIF position: the geom of the
\* inserted row
CreateImageRecordRaw ==
    /\ verify.pc = "verified"
    /\ verify' = [verify EXCEPT
          !.pc = "created",
          !.geom = GeomPoint(TRUE, verify.devicePos, verify.exifPos)]
    /\ UNCHANGED <<gridBlocks, sessions, blocks, uploads, images, link,
                   reports, starts, requests, refreshTokens, refreshCalls>>

\* setImageGeom(imageId, exifLat, exifLon) inside try/catch: the UPDATE
\* stores the EXIF position, or fails and leaves the row as it was
SetImageGeom(ok) ==
    /\ verify.pc = "created"
    /\ verify' = [verify EXCEPT
          !.pc = "completed",
          !.geom = IF ok THEN verify.exifPos ELSE @]
    /\ UNCHANGED <<gridBlocks, sessions, blocks, uploads, images, link,
                   reports, starts, requests, refreshTokens, refreshCalls>>

VerifyNext ==
    \/ VerifyOutcome
    \/ \E hasGeom \in BOOLEAN : VerifyDistanceToImage(hasGeom)
    \/ CreateImageRecordRaw
    \/ \E ok \in BOOLEAN : SetImageGeom(ok)

VerifySpec == VerifyInit /\ [][VerifyNext]_vars

\* ------------------------------------- completeHandler on every kind of input
\* UploadSpec signs and completes uploads on one farm with capture positions
\* and EXIF of every kind: on and off the farm, on the equator, beyond the
\* pole, EXIF without GPS or timestamp, EXIF that does not parse.
UploadFarms == {"f1"}
\* a latitude beyond the pole, as an offset
BeyondPole == Offset(MaxLatDeg * MetresPerDegree) + 100
WideDevicePos == {0, 100, Offset(0), BeyondPole}
WideExif ==
    ExifInputs \cup
    {[ExifAt(0) EXCEPT !.gps = [fmt |-> "absent", value |-> 0]],
     [ExifAt(0) EXCEPT !.gps = [fmt |-> "text", value |-> 0]],
     [ExifAt(0) EXCEPT !.ts = "absent"],
     [ExifAt(0) EXCEPT !.ts = "exif_no_such_date"],
     [ExifAt(0) EXCEPT !.ts = "text"],
     [ExifAt(50) EXCEPT !.ts = "iso"],
     ExifAt(BeyondPole)}

UploadNext ==
    \/ \E u \in Users, f \in UploadFarms : StartSession(u, f)
    \/ \E u \in Users, f \in UploadFarms, p \in WideDevicePos,
          e \in {NoId} \cup DOMAIN blocks : SignUpload(u, f, p, e)
    \/ \E l \in DOMAIN uploads, x \in WideExif : CompleteUpload(l, x)
    \/ \E i \in DOMAIN link : LinkExplicit(i)
    \/ \E i \in DOMAIN link : LinkSpatialSelect(i)
    \/ \E i \in DOMAIN link : LinkSpatialUpdate(i)
    \/ \E i \in DOMAIN link : LinkCommit(i)

UploadSpec == Init /\ [][UploadNext]_vars

\* ------------------------------------------------ POST /refresh, step by step
\* RefreshSpec follows concurrent refresh requests through the transaction
\* of rotateRefreshToken: findFirst, the INSERT of the new token, the DELETE
\* of the old one, the commit.  refreshTokens are the committed rows of
\* refresh_tokens; a row a transaction inserted is visible to the others
\* after its commit only, a row it deleted stays locked until it ends.
\* refresh requests RefreshSpec follows
MaxRefresh == 3
\* the tokens stored at the start: one in force, one past its expiresAt
ValidToken == 1
ExpiredToken == 2
\* a token that was never issued
UnknownToken == 3
\* generateRefreshTokenPlain of call c: a fresh random value
NewToken(c) == UnknownToken + c
\* the tokens a request can present
PresentedTokens == 1..NewToken(MaxRefresh)

\* existing.expiresAt < new Date()
Expired(t) == t = ExpiredToken

RefreshInit ==
    /\ gridBlocks = <<>>
    /\ sessions = <<>>
    /\ blocks = <<>>
    /\ uploads = <<>>
    /\ images = <<>>
    /\ link = <<>>
    /\ reports = <<>>
    /\ starts = <<>>
    /\ requests = <<>>
    /\ verify = NoVerify
    /\ refreshTokens = {ValidToken, ExpiredToken}
    /\ refreshCalls = <<>>

\* refreshHandler receives the token t
RefreshCall(t) ==
    /\ Len(refreshCalls) < MaxRefresh
    /\ refreshCalls' = Append(refreshCalls,
          [token |-> t, pc |-> "find", existing |-> NoId, created |-> NoId,
           status |-> 0])
    /\ UNCHANGED <<gridBlocks, sessions, blocks, uploads, images, link,
                   reports, starts, requests, verify, refreshTokens>>

\* another transaction has deleted the row of token t and not yet ended
RowLockedByOther(t, c) ==
    \E d \in DOMAIN refreshCalls :
        d # c /\ refreshCalls[d].pc = "commit" /\ refreshCalls[d].existing = t

\* tx.refreshToken.findFirst({ where: { tokenHash } }) and the two checks on
\* its result.  The delete of an expired row is undone by the throw that
\* follows it; it waits while another transaction holds the row.
RotateFind(c) ==
    /\ c \in DOMAIN refreshCalls
    /\ refreshCalls[c].pc = "find"
    /\ LET t == refreshCalls[c].token
       IN  IF t \notin refreshTokens
           THEN refreshCalls' = [refreshCalls EXCEPT ![c].pc = "done",
                                                     ![c].status = 401]
           ELSE IF Expired(t)
           THEN /\ ~RowLockedByOther(t, c)
                /\ refreshCalls' = [refreshCalls EXCEPT ![c].pc = "done",
                                                        ![c].existing = t,
                                                        ![c].status = 401]
           ELSE refreshCalls' = [refreshCalls EXCEPT ![c].pc = "create",
                                                     ![c].existing = t]
    /\ UNCHANGED <<gridBlocks, sessions, blocks, uploads, images, link,
                   reports, starts, requests, verify, refreshTokens>>

\* createAndStoreRefreshToken(existing.userId, req, tx)
RotateCreate(c) ==
    /\ c \in DOMAIN refreshCalls
    /\ refreshCalls[c].pc = "create"
    /\ refreshCalls' = [refreshCalls EXCEPT ![c].pc = "delete",
                                            ![c].created = NewToken(c)]
    /\ UNCHANGED <<gridBlocks, sessions, blocks, uploads, images, link,
                   reports, starts, requests, verify, refreshTokens>>

\* mutant: deleteMany, which deletes no row without an error
DeleteThrowsNever(rowExists) == FALSE

\* prisma delete({ where: { id } }) throws when the row does not exist
DeleteThrows(rowExists) == ~rowExists

\* tx.refreshToken.delete({ where: { id: existing.id } }): it waits while
\* another transaction holds the row; when it throws, the transaction is
\* rolled back with the token it created and refreshHandler answers 401
RotateDelete(c) ==
    /\ c \in DOMAIN refreshCalls
    /\ refreshCalls[c].pc = "delete"
    /\ ~RowLockedByOther(refreshCalls[c].existing, c)
    /\ refreshCalls' = [refreshCalls EXCEPT ![c] =
          IF DeleteThrows(refreshCalls[c].existing \in refreshTokens)
          THEN [@ EXCEPT !.pc = "done", !.status = 401]
          ELSE [@ EXCEPT !.pc = "commit"]]
    /\ UNCHANGED <<gridBlocks, sessions, blocks, uploads, images, link,
                   reports, starts, requests, verify, refreshTokens>>

\* the transaction commits: the new row becomes visible, the old one is gone,
\* and refreshHandler answers 200 with the new token
RotateCommit(c) ==
    /\ c \in DOMAIN refreshCalls
    /\ refreshCalls[c].pc = "commit"
    /\ refreshTokens' = (refreshTokens \ {refreshCalls[c].existing})
                            \cup {refreshCalls[c].created}
    /\ refreshCalls' = [refreshCalls EXCEPT ![c].pc = "done",
                                            ![c].status = 200]
    /\ UNCHANGED <<gridBlocks, sessions, blocks, uploads, images, link,
                   reports, starts, requests, verify>>

RefreshNext ==
    \/ \E t \in PresentedTokens : RefreshCall(t)
    \/ \E c \in DOMAIN refreshCalls : RotateFind(c)
    \/ \E c \in DOMAIN refreshCalls : RotateCreate(c)
    \/ \E c \in DOMAIN refreshCalls : RotateDelete(c)
    \/ \E c \in DOMAIN refreshCalls : RotateCommit(c)

RefreshSpec == RefreshInit /\ [][RefreshNext]_vars

\* ------------------------------------------------------------------ claims
\* the uploads row behind image i, and the block its deviceMeta names
UploadOf(i) == uploads[images[i].localUploadId]
ExplicitOf(i) == UploadOf(i).sessionBlockId

\* the blocks that hold an image of upload l
BlocksOfUpload(l) ==
    {b \in DOMAIN blocks : /\ blocks[b].imageId # NoId
                           /\ images[blocks[b].imageId].localUploadId = l}

\* the finished link attempts directed at block b, by name or by selection
AttemptsAt(b) ==
    {i \in DOMAIN link : /\ link[i].pc = "done"
                         /\ (ExplicitOf(i) = b \/ link[i].candidate = b)}

ConflictCodes ==
    {"explicit_block_already_taken", "spatial_conflict", "spatial_no_match"}

\* C1: of the link calls that name the same block at most one links to it,
\* every other one ends unlinked with a conflict code, and the block holds
\* the winner's image.
C1_OneWinnerOthersConflict ==
    \A b \in DOMAIN blocks :
        LET calls == {i \in DOMAIN link : link[i].pc = "done" /\ ExplicitOf(i) = b}
            winners == {i \in calls : link[i].linkedSessionBlockId = b}
        IN  /\ Cardinality(winners) <= 1
            /\ \A i \in calls \ winners :
                  /\ link[i].responseCode \in ConflictCodes
                  /\ link[i].linkedSessionBlockId = NoId
            /\ winners # {} => blocks[b].imageId \in winners

\* C2: an explicit link to an open block of an ACTIVE session with a VERIFIED
\* outcome, its UPDATE not failing in the database, takes that block, answers
\* linked_and_verified with that block's id, and after the commit the block
\* holds the image.
C2_ExplicitOpenVerifiedLinks ==
    /\ [][\A i \in DOMAIN link :
            (/\ link[i].pc = "explicit"
             /\ link'[i].pc # "explicit"
             /\ ~link'[i].aborted
             /\ blocks[ExplicitOf(i)].imageId = NoId
             /\ sessions[blocks[ExplicitOf(i)].sessionId].status = "ACTIVE"
             /\ images[i].verification_status = "VERIFIED")
            => (/\ link'[i].pc = "commit"
                /\ link'[i].written = {ExplicitOf(i)}
                /\ link'[i].linkedSessionBlockId = ExplicitOf(i)
                /\ link'[i].responseCode = "linked_and_verified")]_vars
    /\ [](\A i \in DOMAIN link :
            (link[i].pc = "done" /\ link[i].first = "row")
            => (/\ blocks[ExplicitOf(i)].imageId = i
                /\ link[i].linkedSessionBlockId = ExplicitOf(i)))

C2_Witness ==
    \E i \in DOMAIN link :
        /\ link[i].pc = "done"
        /\ link[i].first = "row"
        /\ link[i].responseCode = "linked_and_verified"
        /\ link[i].linkedSessionBlockId = ExplicitOf(i)
        /\ blocks[ExplicitOf(i)].imageId = i
        /\ sessions[blocks[ExplicitOf(i)].sessionId].status = "ACTIVE"

\* C3: a call whose explicit block was already taken ends with
\* explicit_block_already_taken, without a spatial candidate and unlinked.
C3_ExplicitTakenNoFallthrough ==
    \A i \in DOMAIN link :
        (link[i].pc = "done" /\ link[i].first = "null")
        => (/\ link[i].responseCode = "explicit_block_already_taken"
            /\ link[i].candidate = NoId
            /\ link[i].linkedSessionBlockId = NoId)

\* C4: a session block that holds an image has status COMPLETED or FLAGGED.
C4_ImageImpliesCompletedOrFlagged ==
    \A b \in DOMAIN blocks :
        blocks[b].imageId # NoId => blocks[b].status \in {"COMPLETED", "FLAGGED"}

C4_Witness ==
    \E b, c \in DOMAIN blocks :
        /\ blocks[b].imageId # NoId /\ blocks[b].status = "FLAGGED"
        /\ blocks[c].imageId # NoId /\ blocks[c].status = "COMPLETED"

\* C5: once a block's imageId is set, no step changes it.
C5_ImageIdSetOnce ==
    [][\A b \in DOMAIN blocks :
          blocks[b].imageId # NoId => blocks'[b].imageId = blocks[b].imageId]_vars

C5_Witness ==
    \E i \in DOMAIN link :
        /\ link[i].pc = "done"
        /\ link[i].first = "null"
        /\ blocks[ExplicitOf(i)].imageId \notin {NoId, i}

\* C6: no image is the imageId of two different session blocks.
C6_ImageBacksOneBlock ==
    \A b, c \in DOMAIN blocks :
        (b # c /\ blocks[b].imageId # NoId) => blocks[b].imageId # blocks[c].imageId

C6_Witness ==
    \E b, c \in DOMAIN blocks :
        /\ b # c
        /\ blocks[b].imageId # NoId
        /\ blocks[c].imageId # NoId

\* the linking transactions opened for upload l
LinksOfUpload(l) == {i \in DOMAIN link : images[i].localUploadId = l}

\* C7: once a block holds an image of an upload, every later step, a repeated
\* completion of that upload included, leaves the block with that image,
\* leaves no other block with an image of that upload and opens no further
\* linking transaction for it.
C7_RetryDoesNotDoubleLink ==
    [][\A l \in DOMAIN uploads : \A b \in BlocksOfUpload(l) :
          /\ blocks'[b].imageId = blocks[b].imageId
          /\ BlocksOfUpload(l)' = {b}
          /\ LinksOfUpload(l)' = LinksOfUpload(l)]_vars

C7_Witness ==
    \E l \in DOMAIN uploads :
        /\ uploads[l].uploadStatus = "FAILED"
        /\ uploads[l].sessionBlockId \in BlocksOfUpload(l)

\* the attempts counter never passes the first successful link, so the cap
\* of C8 (attempts >= AttemptCap forces FAILED) is never reached
AttemptsAtMostOne ==
    \A b \in DOMAIN blocks :
        /\ blocks[b].attempts <= 1
        /\ blocks[b].attempts = 1 <=> blocks[b].imageId # NoId

\* C9: a block's attempts counter equals the number of finished link attempts
\* directed at it, the failed ones included.
C9_AttemptsCountEveryAttempt ==
    \A b \in DOMAIN blocks : blocks[b].attempts = Cardinality(AttemptsAt(b))

\* C10: the candidate of the spatial fallback belongs to a session of the
\* upload's farm and user, its frozen geometry contains the device position,
\* and while it is held it is open and its session ACTIVE.
C10_SpatialCandidateSound ==
    \A i \in DOMAIN link :
        link[i].candidate # NoId =>
            LET c == link[i].candidate
                ses == sessions[blocks[c].sessionId]
            IN  /\ ses.userId = UploadOf(i).userId
                /\ ses.farmId = UploadOf(i).farmId
                /\ Contains(blocks[c].geom, UploadOf(i).devicePos)
                /\ link[i].pc = "update" =>
                      (blocks[c].imageId = NoId /\ ses.status = "ACTIVE")

\* the open blocks of ACTIVE sessions of the upload's user that contain the
\* device position of image i, whoever holds their rows
MatchingOpenBlocks(i) ==
    {b \in DOMAIN blocks :
        /\ sessions[blocks[b].sessionId].status = "ACTIVE"
        /\ blocks[b].imageId = NoId
        /\ Contains(blocks[b].geom, UploadOf(i).devicePos)
        /\ sessions[blocks[b].sessionId].userId = UploadOf(i).userId}

\* the transactions that selected block b by spatial matching
SpatialTakers(b) == {j \in DOMAIN link : link[j].candidate = b}

\* those of them that still hold the row lock of the block
SpatialHolders(b) == {j \in SpatialTakers(b) : BlockKey(b) \in link[j].held}

\* C11: when a spatial selection finds an open matching block held by a
\* concurrent spatial transaction, that transaction is the only one holding
\* it, and the selection does not take the block: without another candidate
\* it ends unlinked with spatial_no_match.  A transaction that took a block
\* and did not fail in the database links it, no block is linked by two
\* spatial transactions, and a spatial-only attempt that ends unlinked
\* without a database failure ends with spatial_conflict or spatial_no_match.
C11_SpatialRaceOneWinner ==
    /\ [][\A i \in DOMAIN link : \A b \in MatchingOpenBlocks(i) :
            (/\ link[i].pc = "select"
             /\ link'[i].pc # "select"
             /\ ~link'[i].aborted
             /\ SpatialHolders(b) \ {i} # {})
            => (/\ Cardinality(SpatialHolders(b)) = 1
                /\ \A j \in SpatialHolders(b) :
                      /\ link[j].pc \in {"update", "commit"}
                      /\ (link[j].pc = "commit" /\ ~link[j].aborted)
                            => link[j].written = {b}
                /\ link'[i].candidate # b
                /\ link'[i].candidate = NoId =>
                      (/\ link'[i].pc = "commit"
                       /\ link'[i].responseCode = "spatial_no_match"
                       /\ link'[i].linkedSessionBlockId = NoId))]_vars
    /\ [](\A b \in DOMAIN blocks :
            /\ Cardinality({j \in SpatialTakers(b) :
                              link[j].linkedSessionBlockId = b}) <= 1
            /\ \A j \in SpatialTakers(b) :
                  (link[j].pc = "done" /\ ~link[j].aborted) =>
                      (/\ link[j].linkedSessionBlockId = b
                       /\ blocks[b].imageId = j))
    /\ [](\A i \in DOMAIN link :
            (/\ link[i].pc = "done"
             /\ link[i].first = "unset"
             /\ ~link[i].aborted
             /\ link[i].linkedSessionBlockId = NoId)
            => link[i].responseCode \in {"spatial_conflict", "spatial_no_match"})

\* one spatial attempt has lost the race while the winner still holds the
\* open block
C11_Witness ==
    \E i, j \in DOMAIN link : \E b \in MatchingOpenBlocks(i) :
        /\ i # j
        /\ link[i].first = "unset" /\ link[j].first = "unset"
        /\ link[i].pc = "done"
        /\ link[i].responseCode = "spatial_no_match"
        /\ link[j].pc = "commit"
        /\ link[j].candidate = b
        /\ link[j].written = {b}
        /\ UploadOf(j).devicePos = UploadOf(i).devicePos

\* the codes the Block Linker answers with
LinkCodes ==
    {"linked_and_verified", "linked_but_flagged", "explicit_block_already_taken",
     "spatial_conflict", "spatial_no_match", "explicit_link_error",
     "spatial_link_error"}

C14_LinkingKeepsImageAndUpload ==
    /\ [][\A i \in DOMAIN link' :
            /\ i \notin DOMAIN link =>
                  /\ i \in DOMAIN images'
                  /\ uploads'[images'[i].localUploadId].uploadStatus = "COMPLETED"
            /\ (i \in DOMAIN link /\ link'[i] # link[i]) =>
                  (images' = images /\ uploads' = uploads)]_vars
    /\ [](\A i \in DOMAIN link : i \in DOMAIN images)

\* a link attempt ended unlinked by a failed statement, another by a conflict
\* or no match; both images exist and both uploads are COMPLETED
C14_Witness ==
    \E i, j \in DOMAIN link :
        /\ link[i].pc = "done" /\ link[j].pc = "done"
        /\ link[i].aborted
        /\ link[i].responseCode = "spatial_link_error"
        /\ link[j].responseCode = "spatial_no_match"
        /\ link[i].linkedSessionBlockId = NoId
        /\ link[j].linkedSessionBlockId = NoId
        /\ UploadOf(i).uploadStatus = "COMPLETED"
        /\ UploadOf(j).uploadStatus = "COMPLETED"

\* the row whose lock the next statement of transaction i needs
WaitKey(i) ==
    IF link[i].pc = "explicit" THEN BlockKey(ExplicitOf(i))
    ELSE BlockKey(link[i].candidate)

\* transaction i waits for a row lock that transaction j holds
WaitsFor(i, j) ==
    /\ i # j
    /\ link[i].pc \in {"explicit", "update"}
    /\ WaitKey(i) \in link[j].held

\* C12: no set of linking transactions is deadlocked, each of them waiting
\* for a row lock held by another one of the set.
C12_NoDeadlock ==
    \A D \in SUBSET DOMAIN link :
        D # {} => \E i \in D : \A j \in D : ~WaitsFor(i, j)

\* an explicit link waits for the block a spatial link has selected
C12_Witness ==
    \E i, j \in DOMAIN link :
        /\ WaitsFor(i, j)
        /\ link[i].pc = "explicit"
        /\ link[j].first = "unset"
        /\ link[j].candidate = ExplicitOf(i)

\* ----------------------------------------- claims on GridSpec and StartSpec
\* the geometries of the grid_blocks rows of farm f
FarmGridGeoms(f) == {gridBlocks[g].geom : g \in FarmGridIds(gridBlocks, f)}

\* the cells of farm f: the non-empty intersections of its boundary with the
\* tiles
FarmCells(f) ==
    {TileGeom(f, TileIndexSeq[k], DefaultResolutionM) : k \in DOMAIN TileIndexSeq}
        \ {{}}

\* C15: whatever calls ran, concurrent ones included, a farm's grid is empty
\* or holds exactly the rows one call creates, no cell twice.
C15_ConcurrentEnsureGridOnce ==
    \A f \in GridFarms :
        \/ FarmGridIds(gridBlocks, f) = {}
        \/ /\ FarmGridGeoms(f) = FarmCells(f)
           /\ Cardinality(FarmGridIds(gridBlocks, f)) = Cardinality(FarmCells(f))

\* C16: a call that finds rows for its farm skips the INSERT, and no step of
\* a call that found rows changes grid_blocks: the farm's grid after it is
\* the grid before it.
C16_EnsureGridIdempotent ==
    /\ [][\A c \in DOMAIN starts :
            /\ (/\ starts[c].pc = "count"
                /\ starts'[c].pc # "count"
                /\ FarmGridIds(gridBlocks, starts[c].farmId) # {})
               => (starts'[c].pc = "select" /\ gridBlocks' = gridBlocks)
            /\ (starts[c].count > 0 /\ starts'[c] # starts[c])
               => gridBlocks' = gridBlocks]_vars
    /\ [](\A c \in DOMAIN starts : starts[c].count > 0 => starts[c].pc # "insert")

\* a second call ran after a first one built the grid, and the grid is the
\* one the first call built
C16_Witness ==
    \E c, d \in DOMAIN starts :
        /\ c # d
        /\ starts[c].farmId = starts[d].farmId
        /\ starts[c].pc = "select" /\ starts[c].count = 0
        /\ starts[d].pc = "select" /\ starts[d].count > 0
        /\ FarmGridGeoms(starts[c].farmId) = FarmCells(starts[c].farmId)
        /\ Cardinality(FarmGridIds(gridBlocks, starts[c].farmId))
              = Cardinality(FarmCells(starts[c].farmId))

\* C17: at every state a farm's grid is empty or covers every cell of the
\* farm; no state shows a part of the cells.
C17_GridAllOrNone ==
    \A f \in GridFarms : FarmGridGeoms(f) \in {{}, FarmCells(f)}

\* the INSERT of one call failed and left no row, a later call built the
\* whole grid of a farm of several cells
C17_Witness ==
    \E c, d \in DOMAIN starts :
        /\ starts[c].farmId = starts[d].farmId
        /\ starts[c].pc = "failed" /\ starts[c].error = "database error"
        /\ starts[c].sel = <<>>
        /\ starts[d].pc \notin {"count", "insert"} /\ starts[d].count = 0
        /\ Cardinality(FarmCells(starts[c].farmId)) > 1
        /\ FarmGridGeoms(starts[c].farmId) = FarmCells(starts[c].farmId)

\* the sampling_sessions rows of farm f
FarmSessions(f) == {s \in DOMAIN sessions : sessions[s].farmId = f}

\* the sampling_session_blocks rows of session s
SessionBlocks(s) == {b \in DOMAIN blocks : blocks[b].sessionId = s}

\* C18: while a farm has no grid row, no call for it gets past the check of
\* the selection, a call that reached the check has failed with the error of
\* the empty grid, and the farm has no session and no session block.
C18_EmptyGridStartFails ==
    \A f \in StartFarms :
        FarmGridIds(gridBlocks, f) = {} =>
            /\ FarmSessions(f) = {}
            /\ \A b \in DOMAIN blocks : sessions[blocks[b].sessionId].farmId # f
            /\ \A c \in DOMAIN starts :
                  starts[c].farmId = f =>
                      /\ starts[c].pc \in {"count", "insert", "select", "failed"}
                      /\ starts[c].sessionId = NoId
                      /\ (starts[c].pc = "failed" /\ starts[c].error # "database error")
                            => starts[c].error = "Farm has no valid grid blocks"

\* a start on the farm without cells has failed after its grid was generated
C18_Witness ==
    \E c \in DOMAIN starts :
        /\ FarmCells(starts[c].farmId) = {}
        /\ starts[c].pc = "failed"
        /\ starts[c].error = "Farm has no valid grid blocks"
        /\ FarmSessions(starts[c].farmId) = {}

\* C19: a session has min(SampleSize, number of grid rows of its farm)
\* blocks, each on a grid row of its farm, no two on the same grid row.
C19_SampleSizeDistinctBlocks ==
    \A s \in DOMAIN sessions :
        LET ids == FarmGridIds(gridBlocks, sessions[s].farmId)
        IN  /\ Cardinality(SessionBlocks(s)) = Min(SampleSize, Cardinality(ids))
            /\ SessionBlocks(s) # {}
            /\ \A b \in SessionBlocks(s) : blocks[b].gridBlockId \in ids
            /\ \A b, c \in SessionBlocks(s) :
                  b # c => blocks[b].gridBlockId # blocks[c].gridBlockId

\* a session on the farm of five cells has four blocks
C19_Witness ==
    \E s \in DOMAIN sessions :
        /\ Cardinality(FarmGridIds(gridBlocks, sessions[s].farmId)) > SampleSize
        /\ Cardinality(SessionBlocks(s)) = SampleSize

\* C20: every session is the one a finished call committed together with its
\* blocks, one block per selected grid row; a call that failed left no
\* session.
C20_SessionCreationAtomic ==
    /\ \A s \in DOMAIN sessions :
          \E c \in DOMAIN starts :
              /\ starts[c].pc = "done"
              /\ starts[c].sessionId = s
              /\ SessionBlocks(s) # {}
              /\ Cardinality(SessionBlocks(s)) = Len(starts[c].sel)
              /\ {blocks[b].gridBlockId : b \in SessionBlocks(s)}
                    = {starts[c].sel[j] : j \in DOMAIN starts[c].sel}
    /\ \A c \in DOMAIN starts : starts[c].pc # "done" => starts[c].sessionId = NoId
    /\ Len(sessions) = Cardinality({c \in DOMAIN starts : starts[c].pc = "done"})

\* one call failed inside the transaction, another one committed its session
C20_Witness ==
    \E c, d \in DOMAIN starts :
        /\ starts[c].pc = "failed"
        /\ starts[c].sel # <<>>
        /\ starts[d].pc = "done"
        /\ Len(sessions) = 1

\* ------------------------------------------------------ claims on SubmitSpec
\* the session a submit request names exists on the farm of its path
RequestFound(r) ==
    /\ requests[r].sessionId \in DOMAIN sessions
    /\ sessions[requests[r].sessionId].farmId = requests[r].farmId

\* the blocks of session s that are COMPLETED and carry an image
DoneBlocks(s) ==
    {b \in SessionBlocks(s) :
        blocks[b].status = "COMPLETED" /\ blocks[b].imageId # NoId}

\* C21: the N blocks of a session carry the order_index values 0..N-1, each
\* once, from their creation on, and no later step (linking, submitting)
\* changes the order_index of a block.
C21_OrderIndexFixed ==
    /\ [](\A s \in DOMAIN sessions :
            /\ {blocks[b].order_index : b \in SessionBlocks(s)}
                  = 0..(Cardinality(SessionBlocks(s)) - 1)
            /\ \A a, b \in SessionBlocks(s) :
                  a # b => blocks[a].order_index # blocks[b].order_index)
    /\ [][\A b \in DOMAIN blocks :
             blocks'[b].order_index = blocks[b].order_index]_vars

\* a submitted session of two blocks, one of them linked to an image
C21_Witness ==
    \E s \in DOMAIN sessions :
        /\ sessions[s].status = "COMPLETED"
        /\ Cardinality(SessionBlocks(s)) >= 2
        /\ \E b \in SessionBlocks(s) :
              blocks[b].imageId # NoId /\ blocks[b].order_index = 1

\* C22: a session that is COMPLETED or CANCELLED keeps its status for ever,
\* and a submit that finds its session not ACTIVE is answered with an error
\* without writing anything: no report, no image, no session, no block
\* changes.
C22_TerminalStates ==
    /\ [][\A s \in DOMAIN sessions :
             sessions[s].status \in {"COMPLETED", "CANCELLED"} =>
                 sessions'[s].status = sessions[s].status]_vars
    /\ [][\A r \in DOMAIN requests :
             (/\ SubmitRead(r)
              /\ RequestFound(r)
              /\ sessions[requests[r].sessionId].status # "ACTIVE") =>
                 /\ requests'[r].pc = "done"
                 /\ requests'[r].status = 400
                 /\ requests'[r].reportId = NoId
                 /\ UNCHANGED <<gridBlocks, sessions, blocks, uploads, images,
                                reports>>]_vars
    /\ [](\A r \in DOMAIN requests :
            (requests[r].pc = "done" /\ requests[r].status # 200) =>
                requests[r].reportId = NoId /\ requests[r].imageIds = {})

\* a submit of a session that was already submitted has been rejected, the
\* session has its one report
C22_Witness ==
    \E r \in DOMAIN requests :
        /\ requests[r].pc = "done"
        /\ requests[r].status = 400
        /\ requests[r].message = "Session is already COMPLETED"
        /\ sessions[requests[r].sessionId].status = "COMPLETED"
        /\ Len(reports) = 1

\* C23: a submit of an ACTIVE session none of whose blocks is COMPLETED with
\* an image is answered 400 "No completed blocks found", creates no report
\* and leaves the session ACTIVE.
C23_EmptySubmitRejected ==
    /\ [][\A r \in DOMAIN requests :
             (/\ SubmitRead(r)
              /\ RequestFound(r)
              /\ sessions[requests[r].sessionId].status = "ACTIVE"
              /\ DoneBlocks(requests[r].sessionId) = {}) =>
                 /\ requests'[r].pc = "done"
                 /\ requests'[r].status = 400
                 /\ requests'[r].message =
                       "No completed blocks found. Cannot submit empty session."
                 /\ reports' = reports
                 /\ sessions' = sessions]_vars
    /\ [](\A r \in DOMAIN requests :
            requests[r].message =
                "No completed blocks found. Cannot submit empty session." =>
                /\ requests[r].pc = "done"
                /\ requests[r].reportId = NoId)

\* a submit was rejected as empty although a block of the session carries a
\* flagged image; the session is still ACTIVE and there is no report
C23_Witness ==
    \E r \in DOMAIN requests :
        /\ requests[r].message =
              "No completed blocks found. Cannot submit empty session."
        /\ sessions[requests[r].sessionId].status = "ACTIVE"
        /\ \E b \in SessionBlocks(requests[r].sessionId) :
              blocks[b].status = "FLAGGED" /\ blocks[b].imageId # NoId
        /\ Len(reports) = 0

\* C24: a submit of an ACTIVE session with at least one COMPLETED block that
\* carries an image is accepted, and when it answers 200 the session is
\* COMPLETED and its report exists.
C24_SubmitCompletes ==
    /\ [][\A r \in DOMAIN requests :
             (/\ SubmitRead(r)
              /\ RequestFound(r)
              /\ sessions[requests[r].sessionId].status = "ACTIVE"
              /\ DoneBlocks(requests[r].sessionId) # {}) =>
                 /\ requests'[r].pc = "report"
                 /\ requests'[r].status = 0]_vars
    /\ [][\A r \in DOMAIN requests :
             (requests[r].pc = "session" /\ requests'[r].pc = "done") =>
                 /\ requests'[r].status = 200
                 /\ sessions'[requests[r].sessionId].status = "COMPLETED"]_vars
    /\ [](\A r \in DOMAIN requests :
            (requests[r].op = "submit" /\ requests[r].status = 200) =>
                /\ sessions[requests[r].sessionId].status = "COMPLETED"
                /\ requests[r].reportId \in DOMAIN reports
                /\ reports[requests[r].reportId].sessionId = requests[r].sessionId)

\* a submit has answered 200 and its session is COMPLETED
C24_Witness ==
    \E r \in DOMAIN requests :
        /\ requests[r].op = "submit"
        /\ requests[r].pc = "done"
        /\ requests[r].status = 200
        /\ sessions[requests[r].sessionId].status = "COMPLETED"
        /\ DoneBlocks(requests[r].sessionId) # {}

\* C25: a cancel requested by its owner on an ACTIVE session leaves the
\* session CANCELLED.
C25_CancelMovesActiveToCancelled ==
    [][\A f \in PathFarms, s \in DOMAIN sessions :
          (/\ CancelCall(sessions[s].userId, f, s)
           /\ sessions[s].farmId = f
           /\ sessions[s].status = "ACTIVE") =>
              sessions'[s].status = "CANCELLED"]_vars

\* -------------------------------------- claims on VerifySpec and UploadSpec
\* C26: the outcome is VERIFIED exactly when the distance between the capture
\* position and the EXIF position is at most the tolerance of 50 m, a
\* distance of exactly 50 m included, and FLAGGED otherwise; likewise
\* verifyDistanceToImage answers withinThreshold exactly for a distance of
\* at most its default threshold of 50 m.
C26_VerifiedIffWithinTolerance ==
    /\ verify.pc \in {"verified", "done"} =>
          /\ verify.outcome \in {"VERIFIED", "FLAGGED"}
          /\ verify.outcome = "VERIFIED" <=>
                DistanceMeters(verify.devicePos, verify.exifPos) <= 50
    /\ verify.pc = "done" =>
          (verify.withinThreshold <=>
              (verify.dist # NoDistance /\ verify.dist <= 50))

\* a photo taken exactly 50 m from the capture position has been verified
C26_Witness ==
    /\ verify.pc = "done"
    /\ DistanceMeters(verify.devicePos, verify.exifPos) = 50
    /\ verify.outcome = "VERIFIED"
    /\ verify.withinThreshold

\* the EXIF does not yield a position and a time: it is missing, its GPS
\* value is missing or holds no number, its timestamp is missing or names
\* no moment
ExifUnusable(x) ==
    \/ ~x.present
    \/ x.gps.fmt \in {"absent", "text"}
    \/ x.ts \in {"absent", "exif_no_such_date", "text"}

\* the images row completeHandler has just inserted
NewImage == images'[Len(images')]

\* C27: an image whose EXIF point lies outside the boundary of the farm of
\* its upload is FLAGGED, whatever the distance between the capture and the
\* EXIF position.
C27_OutsideBoundaryFlagged ==
    [][\A l \in DOMAIN uploads, x \in WideExif :
          (/\ CompleteUpload(l, x)
           /\ Len(images') > Len(images)
           /\ ~Contains(FarmBoundary[uploads[l].farmId], Offset(x.gps.value))) =>
              NewImage.verification_status = "FLAGGED"]_vars

\* C28: a completion whose EXIF lacks a usable GPS position or timestamp is
\* answered 400 and fails the upload; it inserts no image, opens no linking
\* transaction and changes no block.
C28_UnusableExifRejected ==
    /\ [][\A l \in DOMAIN uploads, x \in WideExif :
             (CompleteUpload(l, x) /\ ExifUnusable(x)) =>
                 /\ uploads'[l].response = 400
                 /\ uploads'[l].uploadStatus = "FAILED"
                 /\ images' = images
                 /\ link' = link
                 /\ blocks' = blocks]_vars
    /\ [](\A b \in DOMAIN blocks :
            blocks[b].imageId # NoId => blocks[b].imageId \in DOMAIN images)

\* an upload with capture metadata was rejected for its EXIF: it is FAILED,
\* answered 400, has no image and no block
C28_Witness ==
    \E l \in DOMAIN uploads :
        /\ HasCaptureMeta(uploads[l])
        /\ uploads[l].uploadStatus = "FAILED"
        /\ uploads[l].response = 400
        /\ ~\E i \in DOMAIN images : images[i].localUploadId = l
        /\ blocks # <<>>
        /\ \A b \in DOMAIN blocks : blocks[b].imageId = NoId

\* C29: a completion whose outcome is FLAGGED still inserts the image,
\* completes the upload and opens the linking transaction, and a link of a
\* flagged image leaves the block FLAGGED with that image and answers
\* linked_but_flagged.
C29_FlaggedStillLinks ==
    /\ [][\A l \in DOMAIN uploads, x \in WideExif :
             (/\ CompleteUpload(l, x)
              /\ Len(images') > Len(images)
              /\ NewImage.verification_status = "FLAGGED") =>
                 /\ NewImage.localUploadId = l
                 /\ uploads'[l].uploadStatus = "COMPLETED"
                 /\ uploads'[l].response = 200
                 /\ Len(link') = Len(images')]_vars
    /\ [](\A b \in DOMAIN blocks :
            (blocks[b].imageId # NoId
                /\ images[blocks[b].imageId].verification_status = "FLAGGED") =>
                /\ blocks[b].status = "FLAGGED"
                /\ link[blocks[b].imageId].linkedSessionBlockId = b
                /\ link[blocks[b].imageId].responseCode = "linked_but_flagged")

\* a flagged image is linked: its upload is COMPLETED, its block FLAGGED,
\* the answer linked_but_flagged
C29_Witness ==
    \E i \in DOMAIN link :
        /\ link[i].pc = "done"
        /\ images[i].verification_status = "FLAGGED"
        /\ link[i].responseCode = "linked_but_flagged"
        /\ uploads[images[i].localUploadId].uploadStatus = "COMPLETED"
        /\ \E b \in DOMAIN blocks :
              blocks[b].imageId = i /\ blocks[b].status = "FLAGGED"

\* C30: no upload is stored with a capture latitude outside [-90, 90], and a
\* completion whose EXIF latitude is outside [-90, 90] is rejected before
\* the distance is compared: it is answered 400 and inserts no image.
C30_RangesCheckedBeforeDistance ==
    /\ [](\A l \in DOMAIN uploads : InLatRange(Latitude(uploads[l].devicePos)))
    /\ [][\A l \in DOMAIN uploads, x \in WideExif :
             (/\ CompleteUpload(l, x)
              /\ x.present
              /\ x.gps.fmt = "decimal"
              /\ ~InLatRange(x.gps.value)) =>
                 /\ images' = images
                 /\ uploads'[l].response = 400]_vars

\* C39: a completion of an upload that is already COMPLETED inserts no
\* second image for its localUploadId and leaves the upload COMPLETED.
C39_RepeatedCompleteKeepsCompleted ==
    /\ [](\A i, j \in DOMAIN images :
            images[i].localUploadId = images[j].localUploadId => i = j)
    /\ [][\A l \in DOMAIN uploads, x \in WideExif :
             (/\ CompleteUpload(l, x)
              /\ uploads[l].uploadStatus = "COMPLETED"
              /\ ~ExifUnusable(x)) =>
                 uploads'[l].uploadStatus = "COMPLETED"]_vars

\* C40: a completion of an upload whose capture latitude is in range, with
\* usable EXIF and no image yet, is not answered 400; the capture latitude 0
\* included.
C40_ZeroLatitudeAccepted ==
    [][\A l \in DOMAIN uploads, x \in WideExif :
          (/\ CompleteUpload(l, x)
           /\ InLatRange(Latitude(uploads[l].devicePos))
           /\ ~ExifUnusable(x)
           /\ ~ImageInsertConflict(images, l)) =>
              /\ uploads'[l].response = 200
              /\ uploads'[l].uploadStatus = "COMPLETED"]_vars

\* C35: a block acquires an image only while its session is ACTIVE, and a
\* linking transaction that ends on a block of a COMPLETED or CANCELLED
\* session ends with a non-linked result code.
C35_NoImageOnClosedSession ==
    [][/\ \A b \in DOMAIN blocks :
             (blocks[b].imageId = NoId /\ blocks'[b].imageId # NoId) =>
                 sessions[blocks[b].sessionId].status = "ACTIVE"
       /\ \A i \in DOMAIN link :
             (/\ LinkCommit(i)
              /\ link[i].written # {}
              /\ \E b \in link[i].written :
                    sessions[blocks[b].sessionId].status # "ACTIVE") =>
                 link'[i].linkedSessionBlockId = NoId]_vars

\* C36: a block that holds an image belongs to a session of the user and of
\* the farm of the upload the image came from.
C36_LinkedBlockOfUploadsUserAndFarm ==
    \A b \in DOMAIN blocks :
        blocks[b].imageId # NoId =>
            LET ses == sessions[blocks[b].sessionId]
                up == UploadOf(blocks[b].imageId)
            IN  /\ ses.userId = up.userId
                /\ ses.farmId = up.farmId

\* the images attached to the reports of session s
ReportImages(s) ==
    {i \in DOMAIN images :
        /\ images[i].weeklyReportId \in DOMAIN reports
        /\ reports[images[i].weeklyReportId].sessionId = s}

\* C38: the images attached to the report of a COMPLETED session are the
\* images of the session's COMPLETED blocks.
C38_ReportImagesAreCompletedBlocks ==
    \A s \in DOMAIN sessions :
        sessions[s].status = "COMPLETED" =>
            ReportImages(s) = {blocks[b].imageId : b \in CompletedBlocks(s)}

\* the reports created for session s
SessionReports(s) == {k \in DOMAIN reports : reports[k].sessionId = s}

\* the submit requests for session s that were answered 200
SuccessfulSubmits(s) ==
    {r \in DOMAIN requests : /\ requests[r].op = "submit"
                             /\ requests[r].sessionId = s
                             /\ requests[r].status = 200}

\* C37: of the submit requests for a session, concurrent ones included, at
\* most one is answered 200 and at most one creates a report.
C37_ConcurrentSubmitsOneReport ==
    \A s \in DOMAIN sessions :
        /\ Cardinality(SuccessfulSubmits(s)) <= 1
        /\ Cardinality(SessionReports(s)) <= 1

\* C32: a session exists only on a farm of the user who started it, and a
\* get or submit by a user who does not own the farm of the path returns
\* nothing and creates no report.
C32_OwnershipOnEveryOperation ==
    /\ \A s \in DOMAIN sessions : sessions[s].userId = FarmOwner[sessions[s].farmId]
    /\ \A r \in DOMAIN requests :
          (/\ requests[r].op \in {"get", "submit"}
           /\ requests[r].userId # FarmOwner[requests[r].farmId]) =>
              /\ requests[r].status # 200
              /\ requests[r].reportId = NoId
    /\ \A k \in DOMAIN reports : reports[k].userId = FarmOwner[reports[k].farmId]

\* the width of a boundary: the distance between its outermost points
Extent(geom) ==
    IF geom = {} THEN 0
    ELSE (CHOOSE hi \in geom : \A p \in geom : p <= hi)
         - (CHOOSE lo \in geom : \A p \in geom : lo <= p)

\* C33: a farm with a session whose boundary is narrower than one grid cell
\* has exactly one grid row, and the geometry of the row is the boundary.
C33_SmallFarmOneBlock ==
    \A s \in DOMAIN sessions :
        LET f == sessions[s].farmId
        IN  Extent(FarmBoundary[f]) < DefaultResolutionM =>
                /\ Cardinality(FarmGridIds(gridBlocks, f)) = 1
                /\ \A g \in FarmGridIds(gridBlocks, f) :
                       gridBlocks[g].geom = FarmBoundary[f]

\* C31: after the completion the geom of the image is the capture position
\* of the device, which completeHandler always has at that point.
C31_GeomPrefersCapture ==
    verify.pc = "completed" => verify.geom = verify.devicePos

\* the refresh requests that presented token t and were answered 200
SuccessfulRefreshes(t) ==
    {c \in DOMAIN refreshCalls :
        refreshCalls[c].token = t /\ refreshCalls[c].status = 200}

\* the stored tokens that requests presenting token t created
StoredSuccessors(t) ==
    {refreshCalls[c].created : c \in {d \in DOMAIN refreshCalls :
                                        refreshCalls[d].token = t}}
        \cap refreshTokens

\* C34: a token a refresh succeeded with is no longer stored, a refresh that
\* starts when the token is not stored fails, and of the requests presenting
\* one token at most one is answered 200 and at most one token they created
\* is stored.
C34_RefreshTokenRotated ==
    /\ [](\A t \in PresentedTokens :
            /\ SuccessfulRefreshes(t) # {} => t \notin refreshTokens
            /\ Cardinality(SuccessfulRefreshes(t)) <= 1
            /\ Cardinality(StoredSuccessors(t)) <= 1)
    /\ [][\A c \in DOMAIN refreshCalls :
             (RotateFind(c) /\ refreshCalls[c].token \notin refreshTokens) =>
                 refreshCalls'[c].status = 401]_vars

\* two requests presented the token in force and both found its row; one
\* was answered 200, the other 401, and a third request presenting the
\* token afterwards did not find it
C34_Witness ==
    \E c, d, e \in DOMAIN refreshCalls :
        /\ refreshCalls[c].token = ValidToken
        /\ refreshCalls[d].token = ValidToken
        /\ refreshCalls[e].token = ValidToken
        /\ refreshCalls[c].existing = ValidToken
        /\ refreshCalls[d].existing = ValidToken
        /\ refreshCalls[e].existing = NoId
        /\ refreshCalls[c].status = 200
        /\ refreshCalls[d].status = 401
        /\ refreshCalls[d].created # NoId
        /\ refreshCalls[e].status = 401
        /\ refreshTokens = {ExpiredToken, refreshCalls[c].created}

====
